---- MODULE Spec2Model ----
(***************************************************************************)
(* State-machine model of dmenu-mounter.py: one run of the command line    *)
(* program, from main() to process exit.  Every external interaction       *)
(* (os.path.ismount, lsblk, dmenu, os.geteuid, sudo, shutil.which, pkexec, *)
(* sys.stdin.isatty, mount/umount) is an input drawn by the action that    *)
(* performs it and is appended to the log `calls`.                         *)
(*                                                                         *)
(* Encoding of Python values: a JSON null / None string field is the       *)
(* string "null"; an optional structured value is <<>> (None) or <<v>>.    *)
(* An uncaught Python exception ends the process with exit status 1 and    *)
(* its class name in `exception`.                                          *)
(***************************************************************************)
EXTENDS Integers, Sequences, FiniteSets, TLC

\* ------------------------------------------------------------------ bounds
MaxDevices == 2
MaxRules == 2

\* ------------------------------------------------------------ small inputs
None == <<>>
Some(v) == <<v>>

\* Device node names, by position in the lsblk output (paths are unique).
DevicePaths == <<"/dev/sda1", "/dev/sdb1", "/dev/sdc1", "/dev/sdd1">>

\* Results of os.path.getmtime: None (OSError) or a timestamp.
Mtimes == {None, Some(1), Some(2)}

\* Rows of lsblk's "blockdevices", each with the outcome os.path.getmtime
\* would have for its path.  Rows that handled_devices skips before reading
\* any other field carry fixed values for those fields.
SkippedRows ==
    { [fstype |-> "null", mountpoint |-> "null", mtime |-> None],
      [fstype |-> "swap", mountpoint |-> "[SWAP]", mtime |-> None] }

HandledRows ==
    [fstype : {"vfat"}, mountpoint : {"null", "/", "/media"}, mtime : Mtimes]

Rows == SkippedRows \cup HandledRows

\* lsblk outputs: at most one device is mounted at "/".
BlockDevices ==
    { l \in UNION { [1..n -> Rows] : n \in 0..MaxDevices } :
        Cardinality({ i \in DOMAIN l : l[i].mountpoint = "/" }) <= 1 }

\* Mount rules as parse_mount_rule builds them.  `condition` names what
\* eval() of the compiled condition does for the selected device; `args` is
\* the args dict: <<>> for {} or <<l>> for {"mount_args": l}.
\* Rules whose condition is not true never have their args read.
Rules ==
    { [condition |-> "False", args |-> Some(<<"-o", "ro">>)],
      [condition |-> "path == '/dev/sda1'", args |-> Some(<<"-o", "rw">>)],
      [condition |-> "raise", args |-> Some(<<"-o", "ro">>)],
      [condition |-> "True", args |-> None],
      [condition |-> "True", args |-> Some(<<"-o", "ro">>)],
      [condition |-> "True", args |-> Some(<<"-o", "rw">>)] }

\* args.rule after parse_args: None when --rule was never given (argparse's
\* "append" action without a default), else the non-empty list of rules.
RuleArgs ==
    {None} \cup { Some(l) : l \in UNION { [1..n -> Rules] : n \in 1..MaxRules } }

\* Exit statuses and captured output of the mount / umount program.
ReturnCodes == {0, 1}
Output(rc) == IF rc = 0 THEN "" ELSE "wrong fs type"

\* Environment facts read by call_privileged_command: effective uid 0, sudo
\* installed, sudo credentials cached, pkexec installed, the target program
\* on PATH, stdin a terminal.  Credentials are cached only by an installed sudo.
Envs ==
    { e \in [euid0 : BOOLEAN, sudoInstalled : BOOLEAN, sudoCached : BOOLEAN,
             pkexecInstalled : BOOLEAN, onPath : BOOLEAN, isatty : BOOLEAN] :
        e.sudoCached => e.sudoInstalled }

VARIABLES
    action,       \* args.action
    rules,        \* args.rule
    pc,           \* position of the run
    devices,      \* value of handled_devices(), held until choose_device
    result_list,  \* handled_devices' local `result` before the final sort
    selected,     \* the device chosen in the menu
    evals,        \* outcomes of the rule conditions evaluated so far
    command,      \* the argument of call_privileged_command
    env,          \* the environment call_privileged_command ran in
    result,       \* the CompletedProcess it returned
    calls,        \* log of external interactions, in order
    messages,     \* messages reported through message()
    exception,    \* class of the uncaught exception, "null" if none
    exit_status   \* process exit status, None while running

vars == <<action, rules, pc, devices, result_list, selected, evals, command,
          env, result, calls, messages, exception, exit_status>>

\* ----------------------------------------------------------------- message
\* message(): Fatal ends the process through sys.exit(1).
is_fatal(msg_type) == msg_type = "Fatal"

Msg(msg_type, text) == [type |-> msg_type, text |-> text]

\* Device.to_short_string with label None (lsblk rows here carry no label).
to_short_string(d) == d.path

\* Attribute lookup of a method on a Device: None stands for AttributeError.
device_method(d, name) ==
    IF name = "to_short_string" THEN Some(to_short_string(d)) ELSE None

\* ----------------------------------------------------------- handled_devices
Device(row, i) ==
    [path |-> DevicePaths[i], filesystem |-> row.fstype,
     mountpoint |-> row.mountpoint, mtime |-> row.mtime]

mounted(d) == d.mountpoint # "null"

\* The loop of handled_devices: skip disks, extended partitions and swap.
RECURSIVE build_result(_, _)
build_result(rows, i) ==
    IF i > Len(rows) THEN <<>>
    ELSE IF rows[i].fstype = "null" \/ rows[i].fstype = "swap"
         THEN build_result(rows, i + 1)
         ELSE <<Device(rows[i], i)>> \o build_result(rows, i + 1)

\* Insert d after every element whose key is >= d's key: a stable sort in
\* descending key order, as sorted(..., reverse=True) is.
RECURSIVE insert_desc(_, _)
insert_desc(sorted, d) ==
    IF sorted = <<>> THEN <<d>>
    ELSE IF Head(sorted).mtime[1] >= d.mtime[1]
         THEN <<Head(sorted)>> \o insert_desc(Tail(sorted), d)
         ELSE <<d>> \o sorted

RECURSIVE sort_desc(_, _)
sort_desc(acc, l) ==
    IF l = <<>> THEN acc ELSE sort_desc(insert_desc(acc, Head(l)), Tail(l))

\* sorted(result, key=lambda d: d.mtime, reverse=True).  Comparing a None
\* key with any other key raises TypeError; a list of fewer than two
\* elements is never compared.
sorted_by_mtime(l) ==
    IF Len(l) >= 2 /\ \E i \in DOMAIN l : l[i].mtime = None
    THEN [status |-> "TypeError", value |-> <<>>]
    ELSE IF Len(l) < 2
         THEN [status |-> "ok", value |-> l]
         ELSE [status |-> "ok", value |-> sort_desc(<<>>, l)]

\* --------------------------------------------------- call_privileged_command
Call(fn, args, ret) == [fn |-> fn, args |-> args, input |-> <<>>, ret |-> ret]

Completed(rc) == [returncode |-> rc, stdout |-> Output(rc)]

\* The nested run(args): subprocess.run raises FileNotFoundError when the
\* program args[1] cannot be started, else returns the CompletedProcess.
run(args, installed, rc) ==
    IF installed
    THEN [calls |-> <<Call("subprocess.run", args, ToString(rc))>>,
          status |-> "returned", result |-> Some(Completed(rc))]
    ELSE [calls |-> <<Call("subprocess.run", args, "FileNotFoundError")>>,
          status |-> "FileNotFoundError", result |-> None]

\* What sudo or pkexec returns when it runs the target program: the
\* program's status, or a failure of its own when the program is missing.
wrapped_rc(e, rc) == IF e.onPath THEN rc ELSE 1

Prepend(cs, r) == [r EXCEPT !.calls = cs \o r.calls]

Fatal(cs) == [calls |-> cs, status |-> "Fatal", result |-> None]

\* Lines 236-246: interactive sudo on a terminal, else the Fatal message.
step_tty(cmd, e, rc) ==
    IF e.isatty
    THEN Prepend(<<Call("sys.stdin.isatty", <<>>, "True")>>,
                 run(<<"sudo", "--">> \o cmd, e.sudoInstalled,
                     wrapped_rc(e, rc)))
    ELSE Fatal(<<Call("sys.stdin.isatty", <<>>, "False")>>)

\* Lines 228-234: pkexec, when shutil.which finds the target program; a
\* FileNotFoundError of run (pkexec missing) is caught and passed over.
step_pkexec(cmd, e, rc) ==
    IF e.onPath
    THEN LET which == Call("shutil.which", <<cmd[1]>>, "/usr/bin/" \o cmd[1])
             r == run(<<"pkexec", "/usr/bin/" \o cmd[1]>> \o Tail(cmd),
                      e.pkexecInstalled, rc)
         IN  IF r.status = "FileNotFoundError"
             THEN Prepend(<<which>> \o r.calls, step_tty(cmd, e, rc))
             ELSE Prepend(<<which>>, r)
    ELSE Prepend(<<Call("shutil.which", <<cmd[1]>>, "null")>>,
                 step_tty(cmd, e, rc))

\* Lines 224-226: the probe `sudo -n -v` is made outside any try block.
step_sudo_cached(cmd, e, rc) ==
    LET probe == <<"sudo", "-n", "-v">>
    IN  IF ~e.sudoInstalled
        THEN [calls |-> <<Call("subprocess.call", probe, "FileNotFoundError")>>,
              status |-> "FileNotFoundError", result |-> None]
        ELSE IF e.sudoCached
             THEN Prepend(<<Call("subprocess.call", probe, "0")>>,
                          run(<<"sudo", "--">> \o cmd, TRUE, wrapped_rc(e, rc)))
             ELSE Prepend(<<Call("subprocess.call", probe, "1")>>,
                          step_pkexec(cmd, e, rc))

call_privileged_command_probe_first(cmd, e, rc) ==
    IF e.sudoInstalled /\ e.sudoCached
    THEN step_sudo_cached(cmd, e, rc)
    ELSE IF e.euid0
         THEN Prepend(<<Call("os.geteuid", <<>>, "0")>>, run(cmd, e.onPath, rc))
         ELSE Prepend(<<Call("os.geteuid", <<>>, "1000")>>,
                      step_sudo_cached(cmd, e, rc))

call_privileged_command(cmd, e, rc) ==
    IF e.euid0
    THEN Prepend(<<Call("os.geteuid", <<>>, "0")>>, run(cmd, e.onPath, rc))
    ELSE Prepend(<<Call("os.geteuid", <<>>, "1000")>>,
                 step_sudo_cached(cmd, e, rc))

\* ------------------------------------------------------------ rule matching
\* eval(rule.condition, {}, {path, filesystem, label, uuid}).
eval(rule, d) ==
    IF rule.condition = "path == '/dev/sda1'"
    THEN (IF d.path = "/dev/sda1" THEN "True" ELSE "False")
    ELSE rule.condition

\* rule.args.get("mount_args", []).
mount_args(rule) == IF rule.args = None THEN <<>> ELSE rule.args[1]

\* The loop of select_and_mount, lines 269-286, from rule i on.  An
\* exception of eval is reported as Fatal; the first true condition sets
\* extra_args and breaks.
RECURSIVE match_rules_last(_, _, _)
match_rules_last(rs, d, i) ==
    IF i > Len(rs) THEN [evals |-> <<>>, status |-> "ok", extra_args |-> <<>>]
    ELSE LET m == eval(rs[i], d)
         IN  IF m = "raise"
             THEN [evals |-> <<m>>, status |-> "Fatal", extra_args |-> <<>>]
             ELSE LET rest == match_rules_last(rs, d, i + 1)
                      later == \E k \in DOMAIN rest.evals : rest.evals[k] = "True"
                  IN  [rest EXCEPT !.evals = <<m>> \o rest.evals,
                                   !.extra_args = IF m = "True" /\ ~later
                                                  THEN mount_args(rs[i])
                                                  ELSE rest.extra_args]

RECURSIVE match_rules_swallow(_, _, _)
match_rules_swallow(rs, d, i) ==
    IF i > Len(rs) THEN [evals |-> <<>>, status |-> "ok", extra_args |-> <<>>]
    ELSE LET m == eval(rs[i], d)
         IN  IF m = "True"
             THEN [evals |-> <<m>>, status |-> "ok", extra_args |-> mount_args(rs[i])]
             ELSE LET rest == match_rules_swallow(rs, d, i + 1)
                  IN  [rest EXCEPT !.evals = <<m>> \o rest.evals]

RECURSIVE match_rules(_, _, _)
match_rules(rs, d, i) ==
    IF i > Len(rs) THEN [evals |-> <<>>, status |-> "ok", extra_args |-> <<>>]
    ELSE LET m == eval(rs[i], d)
         IN  IF m = "raise"
             THEN [evals |-> <<m>>, status |-> "Fatal", extra_args |-> <<>>]
             ELSE IF m = "True"
                  THEN [evals |-> <<m>>, status |-> "ok",
                        extra_args |-> mount_args(rs[i])]
                  ELSE LET rest == match_rules(rs, d, i + 1)
                       IN  [rest EXCEPT !.evals = <<m>> \o rest.evals]

\* ------------------------------------------------------------------ the run
Init ==
    /\ action \in {"mount", "unmount"}
    /\ rules \in (IF action = "mount" THEN RuleArgs ELSE {None})
    /\ pc = "main"
    /\ devices = None
    /\ result_list = None
    /\ selected = None
    /\ evals = <<>>
    /\ command = None
    /\ env = None
    /\ result = None
    /\ calls = <<>>
    /\ messages = <<>>
    /\ exception = "null"
    /\ exit_status = None

\* main(), lines 431-437.
Main ==
    /\ pc = "main"
    /\ pc' = (IF action = "mount" THEN "select_and_mount" ELSE "select_and_unmount")
    /\ UNCHANGED <<action, rules, devices, result_list, selected, evals,
                   command, env, result, calls, messages, exception, exit_status>>

\* message(msg, msg_type) followed by the code at `next`; "exit" is the
\* normal end of main().
Report(msg_type, text, next) ==
    /\ messages' = Append(messages, Msg(msg_type, text))
    /\ IF is_fatal(msg_type)
       THEN pc' = "exit" /\ exit_status' = Some(1)
       ELSE /\ pc' = next
            /\ exit_status' = (IF next = "exit" THEN Some(0) ELSE exit_status)
    /\ exception' = exception

\* An exception nobody catches: traceback, exit status 1.
Raise(ex) ==
    /\ exception' = ex
    /\ pc' = "exit"
    /\ exit_status' = Some(1)
    /\ messages' = messages

Goto(next) ==
    /\ pc' = next
    /\ exit_status' = (IF next = "exit" THEN Some(0) ELSE exit_status)
    /\ UNCHANGED <<messages, exception>>

\* The severity select_and_mount gives to "Something is already mounted".
mnt_check_type_error == "Error"

mnt_check_type == "Fatal"

\* select_and_mount, lines 257-258.
CheckMountpoint ==
    /\ pc = "select_and_mount"
    /\ \E ismount \in BOOLEAN :
         /\ calls' = Append(calls, Call("os.path.ismount", <<"/mnt">>,
                                        IF ismount THEN "True" ELSE "False"))
         /\ IF ismount
            THEN Report(mnt_check_type, <<"Something is already mounted on /mnt">>,
                        "mount_enumerate")
            ELSE Goto("mount_enumerate")
    /\ UNCHANGED <<action, rules, devices, result_list, selected, evals,
                   command, env, result>>

LsblkArgs ==
    <<"lsblk", "--json", "--list", "--output",
      "PATH,FSTYPE,LABEL,UUID,MOUNTPOINT,SIZE">>

\* handled_devices(), lines 86-125, called from select_and_mount (line 260)
\* or select_and_unmount (line 304).
HandledDevices ==
    /\ pc \in {"mount_enumerate", "select_and_unmount"}
    /\ \/ /\ calls' = Append(calls, Call("subprocess.run", LsblkArgs, "1"))
          /\ Report("Fatal", <<"Can't get block devices with lsblk:\n{}">>, "exit")
          /\ UNCHANGED <<devices, result_list>>
       \/ \E rows \in BlockDevices :
            LET res == build_result(rows, 1)
                s == sorted_by_mtime(res)
            IN  /\ calls' = Append(calls, Call("subprocess.run", LsblkArgs, "0"))
                /\ result_list' = Some(res)
                /\ IF s.status = "TypeError"
                   THEN Raise("TypeError") /\ devices' = None
                   ELSE /\ devices' = Some(s.value)
                        /\ Goto(IF action = "mount" THEN "mount_choose"
                                                    ELSE "unmount_choose")
    /\ UNCHANGED <<action, rules, selected, evals, command, env, result>>

\* The list comprehensions of lines 260 and 303-305.
candidates ==
    IF action = "mount"
    THEN SelectSeq(devices[1], LAMBDA d : ~mounted(d))
    ELSE SelectSeq(devices[1], LAMBDA d : mounted(d) /\ d.mountpoint # "/")

\* One cell of prepare_table: None becomes the empty string.
cell(v) == IF v = "null" THEN "" ELSE v

\* devices_to_table: a row per device (size and label are not modelled);
\* a column that is None in every row is deleted.
devices_to_table(ds) ==
    LET keep_mp == \E i \in DOMAIN ds : ds[i].mountpoint # "null"
    IN  [i \in DOMAIN ds |->
            IF keep_mp
            THEN <<cell(ds[i].filesystem), cell(ds[i].path), cell(ds[i].mountpoint)>>
            ELSE <<cell(ds[i].filesystem), cell(ds[i].path)>>]

Dmenu(prompt, rows, ret) ==
    [fn |-> "subprocess.run", args |-> <<"dmenu", "-p", prompt>>,
     input |-> rows, ret |-> ret]

\* select_and_mount lines 260-267, select_and_unmount lines 303-312, with
\* choose_device / dmenu_choose: no choice (or a line that is no row) is None.
ChooseDevice ==
    /\ pc \in {"mount_choose", "unmount_choose"}
    /\ LET cands == candidates
           prompt == IF action = "mount" THEN "Mount on /mnt" ELSE "Unmount"
       IN  IF cands = <<>>
           THEN /\ Report("Info",
                          IF action = "mount" THEN <<"No device to mount">>
                                              ELSE <<"No device to unmount">>,
                          "exit")
                /\ UNCHANGED <<calls, selected, devices, result_list>>
           ELSE \/ /\ calls' = Append(calls, Dmenu(prompt, devices_to_table(cands), "null"))
                   /\ Goto("exit")
                   /\ UNCHANGED <<selected, devices, result_list>>
                \/ \E i \in DOMAIN cands :
                     /\ calls' = Append(calls, Dmenu(prompt, devices_to_table(cands),
                                                     cands[i].path))
                     /\ selected' = Some(cands[i])
                     /\ devices' = None
                     /\ result_list' = None
                     /\ Goto(IF action = "mount" THEN "mount_rules" ELSE "unmount_call")
    /\ UNCHANGED <<action, rules, evals, command, env, result>>

\* select_and_mount, lines 269-289 up to the argument of
\* call_privileged_command.  Iterating over None raises TypeError.
MatchRules ==
    /\ pc = "mount_rules"
    /\ IF rules = None
       THEN Raise("TypeError") /\ UNCHANGED <<evals, command>>
       ELSE LET m == match_rules(rules[1], selected[1], 1)
            IN  /\ evals' = m.evals
                /\ IF m.status = "Fatal"
                   THEN /\ Report("Fatal", <<"Can't evaluate mount rule condition:\n{}: {}">>,
                                  "exit")
                        /\ command' = command
                   ELSE /\ command' = Some(<<"mount">> \o m.extra_args
                                             \o <<"--", selected[1].path, "/mnt">>)
                        /\ Goto("mount_call")
    /\ UNCHANGED <<action, rules, devices, result_list, selected, env, result,
                   calls>>

\* The command of this run: line 289 for mount, line 315 for unmount.
the_command ==
    IF action = "mount" THEN command ELSE Some(<<"umount", "--", selected[1].path>>)

\* call_privileged_command(command), lines 208-246, as called from line 288
\* or line 314.
CallPrivilegedCommand ==
    /\ pc \in {"mount_call", "unmount_call"}
    /\ command' = the_command
    /\ \E e \in Envs, rc \in ReturnCodes :
         LET r == call_privileged_command(command'[1], e, rc)
         IN  /\ calls' = calls \o r.calls
             /\ env' = Some(e)
             /\ result' = r.result
             /\ IF r.status = "Fatal"
                THEN Report("Fatal", <<"Can't execute commands as root. Run this script as root, in a terminal, or install pkexec.">>, "exit")
                ELSE IF r.status = "FileNotFoundError"
                     THEN Raise("FileNotFoundError")
                     ELSE Goto(IF action = "mount" THEN "mount_report"
                                                   ELSE "unmount_report")
    /\ UNCHANGED <<action, rules, devices, result_list, selected, evals>>

\* select_and_mount, lines 290-298.  The failure branch looks up
\* `to_stort_string`, which Device does not have.
ReportMount ==
    /\ pc = "mount_report"
    /\ IF result[1].returncode = 0
       THEN Report("Info", <<"Mounted {} on /mnt", to_short_string(selected[1])>>, "exit")
       ELSE LET str == device_method(selected[1], "to_stort_string")
            IN  IF str = None
                THEN Raise("AttributeError")
                ELSE Report("Error", <<"Failed to mount {} on /mnt:\n{}", str[1],
                                       result[1].stdout>>, "exit")
    /\ UNCHANGED <<action, rules, devices, result_list, selected, evals,
                   command, env, result, calls>>

\* select_and_unmount, lines 316-324.
ReportUnmount ==
    /\ pc = "unmount_report"
    /\ IF result[1].returncode = 0
       THEN Report("Info", <<"Unmounted {}", to_short_string(selected[1])>>, "exit")
       ELSE Report("Error", <<"Failed to unmount {}:\n{}", to_short_string(selected[1]),
                              result[1].stdout>>, "exit")
    /\ UNCHANGED <<action, rules, devices, result_list, selected, evals,
                   command, env, result, calls>>

Next ==
    \/ Main
    \/ CheckMountpoint
    \/ HandledDevices
    \/ ChooseDevice
    \/ MatchRules
    \/ CallPrivilegedCommand
    \/ ReportMount
    \/ ReportUnmount

Spec == Init /\ [][Next]_vars

\* ------------------------------------------------------- helper predicates
\* Interactions that probe for or use root privilege.
IsPrivCall(c) ==
    \/ c.fn \in {"os.geteuid", "subprocess.call", "shutil.which", "sys.stdin.isatty"}
    \/ c.fn = "subprocess.run" /\ c.args[1] \in {"sudo", "pkexec", "mount", "umount"}

PrivCalls == SelectSeq(calls, IsPrivCall)

IsMenuCall(c) == c.fn = "subprocess.run" /\ c.args[1] = "dmenu"

IsLsblkCall(c) == c.fn = "subprocess.run" /\ c.args[1] = "lsblk"

Last(seq) == seq[Len(seq)]

Finished == pc = "exit"

\* call_privileged_command has been called and has ended.
Escalated == env # None

CantExecuteReported ==
    /\ messages # <<>>
    /\ Last(messages).type = "Fatal"
    /\ Last(messages).text[1] = "Can't execute commands as root. Run this script as root, in a terminal, or install pkexec."
    /\ exit_status = Some(1)
    /\ exception = "null"

\* The first viable strategy of section 4.2 for an environment.
Strategy(e) ==
    IF e.euid0 THEN "direct"
    ELSE IF e.sudoInstalled /\ e.sudoCached THEN "cached sudo"
    ELSE IF e.pkexecInstalled /\ e.onPath THEN "pkexec"
    ELSE IF e.isatty /\ e.sudoInstalled THEN "interactive sudo"
    ELSE "none"

\* The argument vector a strategy runs for the command.
Wrapped(strategy, cmd) ==
    IF strategy = "direct" THEN cmd
    ELSE IF strategy = "pkexec" THEN <<"pkexec", "/usr/bin/" \o cmd[1]>> \o Tail(cmd)
    ELSE <<"sudo", "--">> \o cmd

\* ------------------------------------------------------------------ claims
\* C1: for every environment, call_privileged_command either returns the
\* captured result of running the command through the first viable strategy
\* (direct, cached sudo, pkexec, interactive sudo) or reports the Fatal
\* "Can't execute commands as root" message; a missing program never ends
\* the call with an unhandled error.
C1_TwoOutcomes ==
    Escalated =>
        LET st == Strategy(env[1])
        IN  /\ exception # "FileNotFoundError"
            /\ IF st = "none"
               THEN result = None /\ CantExecuteReported
               ELSE /\ result # None
                    /\ Last(PrivCalls).fn = "subprocess.run"
                    /\ Last(PrivCalls).args = Wrapped(st, command[1])

\* C2: not elevated, no passwordless sudo, no pkexec and no terminal: the
\* Fatal "Can't execute commands as root" message is reported, the process
\* exits non-zero, and the command is never run through interactive sudo.
C2_FatalWithoutTerminal ==
    (/\ Escalated
     /\ ~env[1].euid0
     /\ ~(env[1].sudoInstalled /\ env[1].sudoCached)
     /\ ~env[1].pkexecInstalled
     /\ ~env[1].isatty)
    => /\ CantExecuteReported
       /\ \A i \in DOMAIN calls :
            ~(calls[i].fn = "subprocess.run" /\ calls[i].args[1] = "sudo")

\* C3: a mount run with no rules configured (no --rule option) in which the
\* user selected a device goes on to call the privileged command
\* ["mount", "--", <device path>, "/mnt"], with no extra arguments.
C3_NoRulesMounts ==
    (/\ action = "mount"
     /\ rules = None
     /\ selected # None
     /\ pc # "mount_rules")
    => command = Some(<<"mount", "--", selected[1].path, "/mnt">>)

\* C4: when the mount command returns a non-zero status, the run reports one
\* Error message containing the captured output and ends with exit status 0.
C4_MountFailureReported ==
    (/\ action = "mount"
     /\ result # None
     /\ result[1].returncode # 0
     /\ Finished)
    => /\ exit_status = Some(0)
       /\ exception = "null"
       /\ Len(messages) = 1
       /\ messages[1].type = "Error"
       /\ \E i \in DOMAIN messages[1].text : messages[1].text[i] = result[1].stdout

\* C5: for every lsblk list, also one mixing known and unknown modification
\* times, handled_devices returns normally a list in descending mtime order
\* with every unknown mtime after every known one.
C5_SortedUnknownLast ==
    result_list # None =>
        /\ exception = "null"
        /\ devices # None
        /\ Len(devices[1]) = Len(result_list[1])
        /\ \A i, j \in DOMAIN devices[1] :
             i < j =>
                /\ devices[1][i].mtime = None => devices[1][j].mtime = None
                /\ (devices[1][i].mtime # None /\ devices[1][j].mtime # None)
                      => devices[1][i].mtime[1] >= devices[1][j].mtime[1]

\* C6: when the process runs with effective uid 0, the command is executed
\* directly with exactly the given program and arguments, and no sudo probe,
\* pkexec lookup or terminal check happens before or after it.
C6_RootRunsDirectly ==
    (Escalated /\ env[1].euid0) =>
        /\ Len(PrivCalls) = 2
        /\ PrivCalls[1].fn = "os.geteuid"
        /\ PrivCalls[2].fn = "subprocess.run"
        /\ PrivCalls[2].args = command[1]
        /\ Len(calls) >= 2
        /\ SubSeq(calls, Len(calls) - 1, Len(calls)) = PrivCalls

C6_Witness ==
    /\ Escalated
    /\ env[1].euid0
    /\ env[1].sudoInstalled
    /\ env[1].sudoCached
    /\ result # None
    /\ command = Some(<<"umount", "--", "/dev/sdb1">>)

\* C7: the extra arguments passed to the mount command are exactly those of
\* the first rule, in order, whose condition is true for the selected
\* device; no rule after it is evaluated; with no matching rule there are no
\* extra arguments.
C7_FirstMatchWins ==
    (action = "mount" /\ command # None) =>
        LET rs == rules[1]
            d == selected[1]
            extra == SubSeq(command[1], 2, Len(command[1]) - 3)
        IN  /\ command[1][1] = "mount"
            /\ SubSeq(command[1], Len(command[1]) - 2, Len(command[1]))
                  = <<"--", d.path, "/mnt">>
            /\ \/ \E i \in DOMAIN rs :
                    /\ eval(rs[i], d) = "True"
                    /\ \A j \in 1..(i - 1) : eval(rs[j], d) = "False"
                    /\ extra = mount_args(rs[i])
                    /\ Len(evals) = i
               \/ /\ \A i \in DOMAIN rs : eval(rs[i], d) = "False"
                  /\ extra = <<>>
                  /\ Len(evals) = Len(rs)

C7_Witness ==
    /\ action = "mount"
    /\ command = Some(<<"mount", "-o", "ro", "--", "/dev/sdb1", "/mnt">>)
    /\ rules # None
    /\ Len(rules[1]) = 2
    /\ rules[1][1].condition = "True"
    /\ rules[1][2] = [condition |-> "True", args |-> Some(<<"-o", "rw">>)]
    /\ result # None

\* C8: when evaluating a rule condition raises before any rule matched, the
\* run reports a Fatal message and exits non-zero, and no privilege probe and
\* no mount command is ever executed in that run.
C8_EvalErrorIsFatal ==
    (\E i \in DOMAIN evals : evals[i] = "raise") =>
        /\ Finished
        /\ exit_status = Some(1)
        /\ messages # <<>>
        /\ Last(messages).type = "Fatal"
        /\ PrivCalls = <<>>
        /\ command = None
        /\ env = None

C8_Witness ==
    /\ evals = <<"False", "raise">>
    /\ Finished
    /\ selected # None

\* C9: when /mnt is already a mount point, the mount run reports a Fatal
\* message and exits non-zero before lsblk is invoked; neither the menu nor
\* any privileged command is run.
C9_BusyMountpointIsFatal ==
    (\E i \in DOMAIN calls :
        calls[i].fn = "os.path.ismount" /\ calls[i].ret = "True")
    => /\ Finished
       /\ exit_status = Some(1)
       /\ Len(messages) = 1
       /\ messages[1].type = "Fatal"
       /\ \A i \in DOMAIN calls :
            ~IsLsblkCall(calls[i]) /\ ~IsMenuCall(calls[i]) /\ ~IsPrivCall(calls[i])

C9_Witness ==
    /\ action = "mount"
    /\ Finished
    /\ calls = <<Call("os.path.ismount", <<"/mnt">>, "True")>>

\* C10: in an unmount run a device mounted at "/" is never shown in the menu
\* and never the argument of umount; when the only mounted device is the one
\* at "/", the run reports Info "No device to unmount", runs neither the menu
\* nor a privileged command, and exits with status 0.
C10_RootNeverUnmounted ==
    action = "unmount" =>
        /\ \A i \in DOMAIN calls :
             IsMenuCall(calls[i]) =>
                \A r \in DOMAIN calls[i].input : Last(calls[i].input[r]) # "/"
        /\ selected # None => selected[1].mountpoint # "/"
        /\ (/\ result_list # None
            /\ \E i \in DOMAIN result_list[1] : result_list[1][i].mountpoint = "/"
            /\ \A i \in DOMAIN result_list[1] :
                 result_list[1][i].mountpoint \in {"null", "/"}
            /\ pc # "unmount_choose")
           => /\ Finished
              /\ exit_status = Some(0)
              /\ messages = <<Msg("Info", <<"No device to unmount">>)>>
              /\ \A i \in DOMAIN calls : ~IsMenuCall(calls[i]) /\ ~IsPrivCall(calls[i])

====
